---- MODULE Spec2Model ----
(***************************************************************************)
(* The graph interaction engine of the flow editor: the node components'   *)
(* pointer handlers (src/src/node.rs) and the shared graph / drag state    *)
(* with the root surface's handlers (src/src/graph.rs).                    *)
(*                                                                         *)
(* Coordinates are integers.  Node heights are multiples of every          *)
(* (port count + 1) that occurs, so the f32 port formula is exact on every *)
(* value of the model and integer division stands for it.  The surface     *)
(* sits at the page origin: page coordinates and svg coordinates agree,    *)
(* and a body event's element coordinates are its page coordinates minus   *)
(* the node's position (the foreignObject is placed at x = pos.x,          *)
(* y = pos.y).                                                             *)
(***************************************************************************)
EXTENDS Integers, Sequences, FiniteSets

VARIABLES
    nodes,               \* the graph's nodes: port counts and sizes (fixed)
    position,            \* Node.position of every node of the graph
    edges,               \* the graph's arcs with their Edge weights, in insertion order
    currently_dragging,  \* VisualGraphInner.currently_dragging
    currently_focused,   \* ApplicationState.currently_focused (NoNode = None)
    panicked,            \* "no", or the panic that ended the process
    last_click,          \* history: the last completed body click (under SpecClicks)
    grab                 \* history: where the node drag in progress started

vars == <<nodes, position, edges, currently_dragging, currently_focused, panicked,
          last_click, grab>>

-----------------------------------------------------------------------------
(* Bounds of the exploration *)

MaxEdges == 2

-----------------------------------------------------------------------------
(* The graphs the editor is started on.  A node is its Node.id (its place  *)
(* in the graph), inputs.len(), outputs.len(), width, height and the       *)
(* position it starts at.                                                  *)

NodeOf(inputs, outputs, width, height, x, y) ==
    [inputs |-> inputs, outputs |-> outputs, width |-> width, height |-> height,
     x |-> x, y |-> y]

\* a node with one output, and a node with two inputs to its right
GraphAB == << NodeOf(0, 1, 80, 40, 100, 100), NodeOf(2, 0, 80, 60, 300, 100) >>

\* a narrow node with one input and one output
GraphC == << NodeOf(1, 1, 20, 40, 200, 200) >>

\* a node without ports
GraphD == << NodeOf(0, 0, 80, 40, 100, 200) >>

Graphs == { GraphAB, GraphC, GraphD }

NoNode == 0

Pt(x, y) == [x |-> x, y |-> y]

\* The element coordinates of the body events that are explored, for each
\* node: at distance 1 of a port, at distance 15 of its nearest port, at the
\* same distance of two ports, and farther than 15 from every port.
ProbesAB ==
    << { Pt(78, 20), Pt(64, 20), Pt(40, 20) },
       { Pt(0, 20), Pt(0, 40), Pt(14, 20), Pt(40, 30) } >>

ProbesC == << { Pt(0, 20), Pt(8, 32), Pt(9, 20), Pt(10, 40) } >>

ProbesD == << { Pt(40, 20) } >>

\* page coordinates of the pointer moves that are explored
MovePoints == { Pt(300, 120), Pt(250, 120) }

SNAP_DISTANCE == 15

node_size == 5

None == [tag |-> "None"]

Input(i) == [dir |-> "Input", i |-> i]

Output(i) == [dir |-> "Output", i |-> i]

-----------------------------------------------------------------------------
(* Geometry *)

\* a variant that counts the ports from 0
input_pos_zero_based(s, n, index) ==
    Pt(s.position[n].x - 1,
       s.position[n].y
         + (index * s.nodes[n].height) \div (s.nodes[n].inputs + 1))

input_pos(s, n, index) ==
    Pt(s.position[n].x - 1,
       s.position[n].y
         + ((index + 1) * s.nodes[n].height) \div (s.nodes[n].inputs + 1))

output_pos(s, n, index) ==
    Pt(s.position[n].x + s.nodes[n].width - 1,
       s.position[n].y
         + ((index + 1) * s.nodes[n].height) \div (s.nodes[n].outputs + 1))

\* (a.x - b.x).powi(2) + (a.y - b.y).powi(2)
dist2(a, b) == (a.x - b.x) * (a.x - b.x) + (a.y - b.y) * (a.y - b.y)

\* a variant that returns the last of the elements of least dist
min_by_last(cands) ==
    IF Len(cands) = 0 THEN [some |-> FALSE]
    ELSE LET k == CHOOSE k \in 1..Len(cands) :
                      /\ \A j \in 1..Len(cands) : cands[k].dist <= cands[j].dist
                      /\ \A j \in (k + 1)..Len(cands) : cands[j].dist > cands[k].dist
         IN  [some |-> TRUE, index |-> cands[k].index, dist |-> cands[k].dist]

\* Iterator::min_by over (index, dist) pairs: None on an empty iterator,
\* otherwise the first of the elements of least dist
min_by(cands) ==
    IF Len(cands) = 0 THEN [some |-> FALSE]
    ELSE LET k == CHOOSE k \in 1..Len(cands) :
                      /\ \A j \in 1..Len(cands) : cands[k].dist <= cands[j].dist
                      /\ \A j \in 1..(k - 1) : cands[j].dist > cands[k].dist
         IN  [some |-> TRUE, index |-> cands[k].index, dist |-> cands[k].dist]

input_candidates(s, n, page) ==
    [k \in 1..s.nodes[n].inputs |->
        [index |-> Input(k - 1), dist |-> dist2(input_pos(s, n, k - 1), page)]]

output_candidates(s, n, page) ==
    [k \in 1..s.nodes[n].outputs |->
        [index |-> Output(k - 1), dist |-> dist2(output_pos(s, n, k - 1), page)]]

\* a variant with <= for <
snaps_on_down_inclusive(dist) == dist <= SNAP_DISTANCE * SNAP_DISTANCE

\* dist < SNAP_DISTANCE.powi(2) in the body's onmousedown
snaps_on_down(dist) == dist < SNAP_DISTANCE * SNAP_DISTANCE

\* a variant with <= for <
snaps_on_up_inclusive(dist) == dist <= SNAP_DISTANCE * SNAP_DISTANCE

\* dist < SNAP_DISTANCE.powi(2) in the body's onmouseup
snaps_on_up(dist) == dist < SNAP_DISTANCE * SNAP_DISTANCE

-----------------------------------------------------------------------------
(* The shared cell holding the graph and the drag state.  A handler works  *)
(* on a record s of the program's state; write_views counts the live write *)
(* views of the cell.  Acquiring a write view while one is live panics,    *)
(* and a panic ends the handler and the process: every later step of the   *)
(* handler leaves s as it is.                                              *)

Running(s) == s.panicked = "no"

write(s) ==
    IF ~Running(s) THEN s
    ELSE IF s.write_views > 0 THEN [s EXCEPT !.panicked = "already_borrowed"]
    ELSE [s EXCEPT !.write_views = 1]

drop(s) ==
    IF ~Running(s) THEN s ELSE [s EXCEPT !.write_views = 0]

\* a variant that stores the arc from b to a
add_edge_reversed(s, a, b, weight) ==
    IF ~Running(s) THEN s
    ELSE [s EXCEPT !.edges = Append(@, [source |-> b, target |-> a,
                                          start |-> weight[1], end |-> weight[2]])]

\* a variant that keeps one arc of every kind
add_edge_no_duplicates(s, a, b, weight) ==
    LET arc == [source |-> a, target |-> b, start |-> weight[1], end |-> weight[2]]
    IN  IF ~Running(s) THEN s
        ELSE IF \E k \in 1..Len(s.edges) : s.edges[k] = arc THEN s
        ELSE [s EXCEPT !.edges = Append(@, arc)]

add_edge(s, a, b, weight) ==
    IF ~Running(s) THEN s
    ELSE [s EXCEPT !.edges = Append(@, [source |-> a, target |-> b,
                                          start |-> weight[1], end |-> weight[2]])]

\* Edge::new(start, end)
Edge_new(start, end) == <<start, end>>

-----------------------------------------------------------------------------
(* impl VisualGraph *)

\* a variant that ends connection drags only
clear_dragging_connection_only(s) ==
    LET w == write(s)
    IN  IF ~Running(w) THEN w
        ELSE IF w.currently_dragging.tag = "Node" THEN drop(w)
        ELSE drop([w EXCEPT !.currently_dragging = None])

clear_dragging(s) ==
    LET w == write(s)
    IN  IF ~Running(w) THEN w
        ELSE drop([w EXCEPT !.currently_dragging = None])

\* a variant that puts the dragged node's origin under the pointer
update_mouse_no_offset(s, page) ==
    LET w == write(s)
        d == w.currently_dragging
    IN  IF ~Running(w) THEN w
        ELSE IF d.tag = "Connection"
             THEN drop([w EXCEPT !.currently_dragging.to = page])
        ELSE IF d.tag = "Node"
             THEN drop([w EXCEPT !.position[d.node] = page])
        ELSE drop(w)

\* a variant that moves the cursor of a connection drag along x only
update_mouse_cursor_x_only(s, page) ==
    LET w == write(s)
        d == w.currently_dragging
    IN  IF ~Running(w) THEN w
        ELSE IF d.tag = "Connection"
             THEN drop([w EXCEPT !.currently_dragging.to = Pt(page.x, d.to.y)])
        ELSE IF d.tag = "Node"
             THEN drop([w EXCEPT !.position[d.node] =
                            Pt(page.x - d.element_offset.x,
                               page.y - d.element_offset.y)])
        ELSE drop(w)

update_mouse(s, page) ==
    LET w == write(s)
        d == w.currently_dragging
    IN  IF ~Running(w) THEN w
        ELSE IF d.tag = "Connection"
             THEN drop([w EXCEPT !.currently_dragging.to = page])
        ELSE IF d.tag = "Node"
             THEN drop([w EXCEPT !.position[d.node] =
                            Pt(page.x - d.element_offset.x,
                               page.y - d.element_offset.y)])
        ELSE drop(w)

\* a variant that also puts the node's origin where it was grabbed
start_dragging_node_and_move(s, element, n) ==
    LET w == write(s)
    IN  IF ~Running(w) THEN w
        ELSE drop([w EXCEPT !.currently_dragging =
                       [tag |-> "Node", node |-> n, element_offset |-> element],
                            !.position[n] = Pt(@.x + element.x, @.y + element.y)])

start_dragging_node(s, element, n) ==
    LET w == write(s)
    IN  IF ~Running(w) THEN w
        ELSE drop([w EXCEPT !.currently_dragging =
                       [tag |-> "Node", node |-> n, element_offset |-> element]])

\* a variant that leaves a gesture in progress as it is
start_connection_if_idle(s, n, index, page) ==
    LET w == write(s)
    IN  IF ~Running(w) THEN w
        ELSE IF w.currently_dragging # None THEN drop(w)
        ELSE drop([w EXCEPT !.currently_dragging =
                       [tag |-> "Connection", from |-> n, index |-> index, to |-> page]])

start_connection(s, n, index, page) ==
    LET w == write(s)
    IN  IF ~Running(w) THEN w
        ELSE drop([w EXCEPT !.currently_dragging =
                       [tag |-> "Connection", from |-> n, index |-> index, to |-> page]])

-----------------------------------------------------------------------------
(* FlowView: the handlers of the root svg *)

\* a variant that does not look at the held buttons
svg_onmouseenter_any_buttons(s, no_buttons_held) ==
    IF ~Running(s) THEN s ELSE clear_dragging(s)

svg_onmouseenter(s, no_buttons_held) ==
    IF ~Running(s) THEN s
    ELSE IF no_buttons_held THEN clear_dragging(s) ELSE s

svg_onmouseup(s) ==
    IF ~Running(s) THEN s ELSE clear_dragging(s)

svg_onmousemove(s, page) ==
    IF ~Running(s) THEN s ELSE update_mouse(s, page)

\* NodeConnection: the two ends of the line drawn for a connection, start
\* and end being the nodes FlowView passes with it
NodeConnection(s, start, connection, end) ==
    [start_pos |-> input_pos(s, start, connection.start),
     end_pos |-> output_pos(s, end, connection.end)]

\* FlowView: the line drawn for every edge of the graph, in the order of
\* edge_references(); start is edge_ref.target(), end is edge_ref.source()
FlowView_connections(s) ==
    [k \in 1..Len(s.edges) |->
        NodeConnection(s, s.edges[k].target,
                       [start |-> s.edges[k].start, end |-> s.edges[k].end],
                       s.edges[k].source)]

-----------------------------------------------------------------------------
(* Node: the handlers of the port markers and of the body *)

input_onmousedown(s, n, i, page) == start_connection(s, n, Input(i), page)

output_onmousedown(s, n, i, page) == start_connection(s, n, Output(i), page)

\* The write view taken first is still live when clear_dragging() is called.
input_onmouseup(s, n, i) ==
    LET w == write(s)
        d == w.currently_dragging
    IN  IF ~Running(w) THEN w
        ELSE IF d.tag = "Connection"
             THEN IF d.index.dir = "Output"
                  THEN clear_dragging(add_edge(w, d.from, n, Edge_new(d.index.i, i)))
                  ELSE drop(w)                           \* _ => return
        ELSE clear_dragging(w)

\* a variant without the check of the direction the drag started from
output_onmouseup_any_direction(s, n, i) ==
    LET w == write(s)
        d == w.currently_dragging
    IN  IF ~Running(w) THEN w
        ELSE IF d.tag = "Connection"
             THEN clear_dragging(drop(add_edge(w, n, d.from, Edge_new(i, d.index.i))))
        ELSE clear_dragging(drop(w))

\* The write view lives in a block of its own and is dropped before
\* clear_dragging() is called.
output_onmouseup(s, n, i) ==
    LET w == write(s)
        d == w.currently_dragging
    IN  IF ~Running(w) THEN w
        ELSE IF d.tag = "Connection"
             THEN IF d.index.dir = "Input"
                  THEN clear_dragging(drop(add_edge(w, n, d.from, Edge_new(i, d.index.i))))
                  ELSE drop(w)                           \* _ => return
        ELSE clear_dragging(drop(w))

node_onmousedown(s, n, page, element) ==
    LET m == min_by(input_candidates(s, n, page) \o output_candidates(s, n, page))
    IN  IF m.some
        THEN IF snaps_on_down(m.dist)
             THEN start_connection(s, n, m.index, page)
             ELSE start_dragging_node(s, element, n)
        ELSE start_dragging_node(s, element, n)

\* The first block of the body's onmouseup: the end of a connection drag
node_finish_connection(s, n, page) ==
    LET w == write(s)
        d == w.currently_dragging
        m == IF d.index.dir = "Output"
             THEN min_by(input_candidates(w, n, page))
             ELSE min_by(output_candidates(w, n, page))
    IN  IF ~Running(w) THEN w
        ELSE IF d.tag # "Connection" THEN drop(w)
        ELSE IF ~m.some THEN [w EXCEPT !.panicked = "unwrap_none"]
        ELSE IF ~snaps_on_up(m.dist) THEN drop(w)
        ELSE IF d.index.dir = "Output"
             THEN drop(add_edge(w, d.from, n, Edge_new(d.index.i, m.index.i)))
             ELSE drop(add_edge(w, n, d.from, Edge_new(m.index.i, d.index.i)))

\* a variant that never clears the focus
toggle_focus_set_only(s, n) ==
    IF ~Running(s) THEN s ELSE [s EXCEPT !.currently_focused = n]

\* a variant that clears the focus whichever node holds it
toggle_focus_clear_any(s, n) ==
    IF ~Running(s) THEN s
    ELSE IF s.currently_focused # NoNode
         THEN [s EXCEPT !.currently_focused = NoNode]
         ELSE [s EXCEPT !.currently_focused = n]

\* Focus or unfocus this node
toggle_focus(s, n) ==
    IF ~Running(s) THEN s
    ELSE IF s.currently_focused = n
         THEN [s EXCEPT !.currently_focused = NoNode]
         ELSE [s EXCEPT !.currently_focused = n]

\* a variant that leaves the focus alone at the end of a connection drag
node_onmouseup_click_only(s, n, page) ==
    IF s.currently_dragging.tag = "Connection"
    THEN clear_dragging(node_finish_connection(s, n, page))
    ELSE [clear_dragging(node_finish_connection(s, n, page))
             EXCEPT !.currently_focused = IF s.currently_focused = n THEN NoNode ELSE n]

node_onmouseup(s, n, page) ==
    toggle_focus(clear_dragging(node_finish_connection(s, n, page)), n)

-----------------------------------------------------------------------------
(* The state machine: one action per pointer event, the handler of the     *)
(* event's target followed by the root svg's handler the event bubbles to  *)

State ==
    [nodes |-> nodes, position |-> position, edges |-> edges,
     currently_dragging |-> currently_dragging,
     currently_focused |-> currently_focused,
     write_views |-> 0, panicked |-> panicked]

BodyOffsets(n) ==
    IF nodes = GraphAB THEN ProbesAB[n]
    ELSE IF nodes = GraphC THEN ProbesC[n]
    ELSE ProbesD[n]

PageOf(n, element) == Pt(position[n].x + element.x, position[n].y + element.y)

InputMarker(n, i) ==
    LET p == input_pos(State, n, i) IN Pt(p.x + node_size, p.y)

OutputMarker(n, i) ==
    LET p == output_pos(State, n, i) IN Pt(p.x - node_size, p.y)

NoClick == [node |-> NoNode, prior |-> NoNode, after |-> NoNode]

NoGrab == [node |-> NoNode]

\* The program's state after a handler has run on State and returned r (or
\* panicked); a body mousedown at page on node n that starts a node drag is
\* remembered in grab (n is NoNode for the other events).
Commit(r, n, page) ==
    /\ panicked = "no"
    /\ Len(r.edges) <= MaxEdges
    /\ nodes' = nodes
    /\ position' = r.position
    /\ edges' = r.edges
    /\ currently_dragging' = r.currently_dragging
    /\ currently_focused' = r.currently_focused
    /\ panicked' = r.panicked
    /\ grab' =
          IF r.currently_dragging.tag # "Node" THEN NoGrab
          ELSE IF n # NoNode
               THEN [node |-> n, page |-> page, origin |-> position[n]]
          ELSE grab

Init ==
    /\ nodes \in Graphs
    /\ position = [n \in DOMAIN nodes |-> Pt(nodes[n].x, nodes[n].y)]
    /\ edges = << >>
    /\ currently_dragging = None
    /\ currently_focused = NoNode
    /\ panicked = "no"
    /\ last_click = NoClick
    /\ grab = NoGrab

NodeMouseDown(n, element) ==
    /\ Commit(node_onmousedown(State, n, PageOf(n, element), element),
              n, PageOf(n, element))
    /\ UNCHANGED last_click

NodeMouseUp(n, element) ==
    /\ Commit(svg_onmouseup(node_onmouseup(State, n, PageOf(n, element))),
              NoNode, PageOf(n, element))
    /\ UNCHANGED last_click

\* NodeMouseUp, remembering in last_click the click it completes
NodeClick(n, element) ==
    /\ Commit(svg_onmouseup(node_onmouseup(State, n, PageOf(n, element))),
              NoNode, PageOf(n, element))
    /\ last_click' = IF panicked' = "no"
                     THEN [node |-> n, prior |-> currently_focused,
                           after |-> currently_focused']
                     ELSE last_click

InputMouseDown(n, i) ==
    /\ Commit(input_onmousedown(State, n, i, InputMarker(n, i)),
              NoNode, InputMarker(n, i))
    /\ UNCHANGED last_click

InputMouseUp(n, i) ==
    /\ Commit(svg_onmouseup(input_onmouseup(State, n, i)), NoNode, InputMarker(n, i))
    /\ UNCHANGED last_click

OutputMouseDown(n, i) ==
    /\ Commit(output_onmousedown(State, n, i, OutputMarker(n, i)),
              NoNode, OutputMarker(n, i))
    /\ UNCHANGED last_click

OutputMouseUp(n, i) ==
    /\ Commit(svg_onmouseup(output_onmouseup(State, n, i)), NoNode, OutputMarker(n, i))
    /\ UNCHANGED last_click

\* a move over a marker or a body: the element's onmousemove, then the svg's
ElementMouseMove(page) ==
    /\ Commit(svg_onmousemove(update_mouse(State, page), page), NoNode, page)
    /\ UNCHANGED last_click

SvgMouseMove(page) ==
    /\ Commit(svg_onmousemove(State, page), NoNode, page)
    /\ UNCHANGED last_click

SvgMouseUp ==
    /\ Commit(svg_onmouseup(State), NoNode, Pt(0, 0))
    /\ UNCHANGED last_click

SvgMouseEnter(no_buttons_held) ==
    /\ Commit(svg_onmouseenter(State, no_buttons_held), NoNode, Pt(0, 0))
    /\ UNCHANGED last_click

\* the events other than a pointerUp on a node body
OtherEvent ==
    \/ \E n \in DOMAIN nodes : \E e \in BodyOffsets(n) : NodeMouseDown(n, e)
    \/ \E n \in DOMAIN nodes : \E i \in 0..(nodes[n].inputs - 1) : InputMouseDown(n, i)
    \/ \E n \in DOMAIN nodes : \E i \in 0..(nodes[n].inputs - 1) : InputMouseUp(n, i)
    \/ \E n \in DOMAIN nodes : \E i \in 0..(nodes[n].outputs - 1) : OutputMouseDown(n, i)
    \/ \E n \in DOMAIN nodes : \E i \in 0..(nodes[n].outputs - 1) : OutputMouseUp(n, i)
    \/ \E p \in MovePoints : ElementMouseMove(p)
    \/ \E p \in MovePoints : SvgMouseMove(p)
    \/ SvgMouseUp
    \/ \E b \in BOOLEAN : SvgMouseEnter(b)

Next ==
    \/ \E n \in DOMAIN nodes : \E e \in BodyOffsets(n) : NodeMouseUp(n, e)
    \/ OtherEvent

Spec == Init /\ [][Next]_vars

\* The same events, with the history of the body clicks kept in last_click
NextClicks ==
    \/ \E n \in DOMAIN nodes : \E e \in BodyOffsets(n) : NodeClick(n, e)
    \/ OtherEvent

SpecClicks == Init /\ [][NextClicks]_vars

-----------------------------------------------------------------------------
(* Vocabulary of the properties *)

Idle == currently_dragging = None

DraggingNode == currently_dragging.tag = "Node"

DraggingConnection == currently_dragging.tag = "Connection"

DraggingFrom(dir) == DraggingConnection /\ currently_dragging.index.dir = dir

Min(S) == CHOOSE m \in S : \A x \in S : m <= x

InputDists(n, page) ==
    { dist2(input_pos(State, n, i), page) : i \in 0..(nodes[n].inputs - 1) }

OutputDists(n, page) ==
    { dist2(output_pos(State, n, i), page) : i \in 0..(nodes[n].outputs - 1) }

\* squared distances from page to the ports of n that a drag in progress can
\* be completed against
OppositeDists(n, page) ==
    IF currently_dragging.index.dir = "Output"
    THEN InputDists(n, page) ELSE OutputDists(n, page)

\* edges' is edges and one more arc
OneEdgeAdded ==
    /\ Len(edges') = Len(edges) + 1
    /\ SubSeq(edges', 1, Len(edges)) = edges

NewEdge == edges'[Len(edges')]

BodyUp == \E n \in DOMAIN nodes : \E e \in BodyOffsets(n) : NodeMouseUp(n, e)

MarkerUp ==
    \/ \E n \in DOMAIN nodes : \E i \in 0..(nodes[n].inputs - 1) : InputMouseUp(n, i)
    \/ \E n \in DOMAIN nodes : \E i \in 0..(nodes[n].outputs - 1) : OutputMouseUp(n, i)

-----------------------------------------------------------------------------
(* C1 *)

\* C1: a pointerUp over the body of node n that ends a connection drag, n
\* having ports of the opposite direction: when the squared distance from
\* the pointer to the nearest of them is < 225, exactly one edge is added,
\* from the owner of the output port to the owner of the input port, with
\* (start, end) = (the output index, the input index), the port of n being
\* one at that least distance; when it is >= 225 the edges are unchanged.
C1_BodyReleaseCommitsWithinSnap ==
    [][\A n \in DOMAIN nodes : \A e \in BodyOffsets(n) :
        (DraggingConnection /\ OppositeDists(n, PageOf(n, e)) # {} /\ NodeMouseUp(n, e)) =>
            LET d == currently_dragging
                page == PageOf(n, e)
                near == Min(OppositeDists(n, page))
            IN  IF near < 225
                THEN /\ OneEdgeAdded
                     /\ IF d.index.dir = "Output"
                        THEN /\ NewEdge.source = d.from /\ NewEdge.target = n
                             /\ NewEdge.start = d.index.i
                             /\ NewEdge.end \in 0..(nodes[n].inputs - 1)
                             /\ dist2(input_pos(State, n, NewEdge.end), page) = near
                        ELSE /\ NewEdge.source = n /\ NewEdge.target = d.from
                             /\ NewEdge.end = d.index.i
                             /\ NewEdge.start \in 0..(nodes[n].outputs - 1)
                             /\ dist2(output_pos(State, n, NewEdge.start), page) = near
                ELSE edges' = edges]_vars

\* A drag from the output of node 1 is over the body of node 2, at distance 1
\* of its second input and 401 of its first: the release commits the edge
\* (1.out0 -> 2.in1).
C1_Witness ==
    /\ nodes = GraphAB
    /\ DraggingFrom("Output") /\ currently_dragging.from = 1
    /\ ENABLED (/\ NodeMouseUp(2, Pt(0, 40))
                /\ edges' = Append(edges, [source |-> 1, target |-> 2,
                                           start |-> 0, end |-> 1]))

-----------------------------------------------------------------------------
(* C2 *)

\* C2: a connection drag started from an output port and released on an
\* output marker commits no edge, and neither does one started from an input
\* port and released on an input marker; every step that changes the edges
\* adds one edge, whose start is an output of its source and whose end is an
\* input of its target, one of the two being the port the drag started from.
C2_DirectionCompatible ==
    [][/\ \A n \in DOMAIN nodes : \A i \in 0..(nodes[n].outputs - 1) :
            (DraggingFrom("Output") /\ OutputMouseUp(n, i)) => edges' = edges
       /\ \A n \in DOMAIN nodes : \A i \in 0..(nodes[n].inputs - 1) :
            (DraggingFrom("Input") /\ InputMouseUp(n, i)) => edges' = edges
       /\ (edges' # edges) =>
            /\ DraggingConnection
            /\ OneEdgeAdded
            /\ NewEdge.start \in 0..(nodes[NewEdge.source].outputs - 1)
            /\ NewEdge.end \in 0..(nodes[NewEdge.target].inputs - 1)
            /\ DraggingFrom("Output") =>
                  /\ NewEdge.source = currently_dragging.from
                  /\ NewEdge.start = currently_dragging.index.i
            /\ DraggingFrom("Input") =>
                  /\ NewEdge.target = currently_dragging.from
                  /\ NewEdge.end = currently_dragging.index.i]_vars

\* A drag from the output of the narrow node is released on that output's
\* marker: no edge, and the drag is over.
C2_Witness ==
    /\ nodes = GraphC
    /\ DraggingFrom("Output")
    /\ ENABLED (OutputMouseUp(1, 0) /\ edges' = edges /\ currently_dragging' = None
                /\ panicked' = "no")

-----------------------------------------------------------------------------
(* C3 *)

\* C3: after a pointerUp on a node body, on a port marker of either
\* direction or on the bare surface, the drag state is Idle.
C3_PointerUpEndsIdle ==
    [][(BodyUp \/ MarkerUp \/ SvgMouseUp) => currently_dragging' = None]_vars

-----------------------------------------------------------------------------
(* C4 *)

\* C4: a pointerUp over the body of a node without a port of the opposite
\* direction, ending a connection drag, raises no error, adds no edge and
\* leaves the drag state Idle.
C4_NoOppositePortIsNoError ==
    [][\A n \in DOMAIN nodes : \A e \in BodyOffsets(n) :
        (DraggingConnection /\ OppositeDists(n, PageOf(n, e)) = {} /\ NodeMouseUp(n, e)) =>
            /\ panicked' = "no"
            /\ edges' = edges
            /\ currently_dragging' = None]_vars

-----------------------------------------------------------------------------
(* C5 *)

\* C5: no handler acquires a second write view of the graph / drag-state
\* cell while one is still held.
C5_OneWriteViewAtATime == panicked # "already_borrowed"

-----------------------------------------------------------------------------
(* C6 *)

\* the second of two successive completed clicks on the body of n, the focus
\* being what the first click left
SecondClick(n, e) ==
    /\ last_click.node = n
    /\ currently_focused = last_click.after
    /\ NodeClick(n, e)
    /\ panicked' = "no"

\* C6 as stated: two successive completed clicks on the body of a node, with
\* no other focus change in between, leave the focused node as it was before
\* the first click, whatever it was.
C6_FocusInvolution ==
    [][\A n \in DOMAIN nodes : \A e \in BodyOffsets(n) :
        SecondClick(n, e) => currently_focused' = last_click.prior]_vars

\* C6 as amended: two successive completed clicks on the body of n restore
\* the focused node when it was none or n before the first click, and leave
\* no node focused when it was another node.
C6_FocusInvolutionOnOwnFocus ==
    [][\A n \in DOMAIN nodes : \A e \in BodyOffsets(n) :
        SecondClick(n, e) =>
            currently_focused' = IF last_click.prior \in {NoNode, n}
                                 THEN last_click.prior ELSE NoNode]_vars

\* Node 1 was focused, a click on node 2 has moved the focus to node 2, and
\* the second click on node 2 clears it.
C6_Witness ==
    /\ nodes = GraphAB
    /\ last_click = [node |-> 2, prior |-> 1, after |-> 2]
    /\ currently_focused = 2
    /\ ENABLED (SecondClick(2, Pt(40, 30)) /\ currently_focused' = NoNode)

-----------------------------------------------------------------------------
(* C7 *)

\* C7 as stated: the focused node changes only in a pointerUp on a node body
\* that does not end a connection drag; a body pointerUp that ends a
\* connection drag leaves it unchanged, as does every other event.
C7_FocusOnlyByPlainClick ==
    [][/\ (currently_focused' # currently_focused) => (~DraggingConnection /\ BodyUp)
       /\ \A n \in DOMAIN nodes : \A e \in BodyOffsets(n) :
            (DraggingConnection /\ NodeMouseUp(n, e)) =>
                currently_focused' = currently_focused]_vars

\* C7 as amended: the focused node changes only in a pointerUp on a node
\* body, and every body pointerUp that is handled to its end changes it, one
\* that ends a connection drag included.
C7_FocusOnlyByBodyUp ==
    [][/\ (currently_focused' # currently_focused) => BodyUp
       /\ \A n \in DOMAIN nodes : \A e \in BodyOffsets(n) :
            (DraggingConnection /\ NodeMouseUp(n, e) /\ panicked' = "no") =>
                currently_focused' # currently_focused]_vars

\* A connection drag from the output of node 1 ends over the body of node 2,
\* far from its inputs: no edge, and node 2 takes the focus.
C7_Witness ==
    /\ nodes = GraphAB
    /\ DraggingFrom("Output")
    /\ currently_focused = NoNode
    /\ ENABLED (/\ NodeMouseUp(2, Pt(40, 30))
                /\ edges' = edges
                /\ currently_focused' = 2)

-----------------------------------------------------------------------------
(* C8 *)

\* C8: a completed click on the body of n focuses n when the focused node
\* was none or another node, and clears the focus when it was n.
C8_ClickTogglesFocus ==
    [][\A n \in DOMAIN nodes : \A e \in BodyOffsets(n) :
        (NodeMouseUp(n, e) /\ panicked' = "no") =>
            /\ currently_focused # n => currently_focused' = n
            /\ currently_focused = n => currently_focused' = NoNode]_vars

\* Node 1 is focused and a click on node 2 moves the focus to node 2.
C8_Witness ==
    /\ nodes = GraphAB
    /\ Idle
    /\ currently_focused = 1
    /\ ENABLED (NodeMouseUp(2, Pt(40, 30)) /\ currently_focused' = 2)

-----------------------------------------------------------------------------
(* C9 *)

\* the ports of n, each with its squared distance to page
PortDists(n, page) ==
    { [index |-> Input(i), dist |-> dist2(input_pos(State, n, i), page)] :
        i \in 0..(nodes[n].inputs - 1) }
    \cup
    { [index |-> Output(i), dist |-> dist2(output_pos(State, n, i), page)] :
        i \in 0..(nodes[n].outputs - 1) }

\* C9: a pointerDown on the body of n while Idle starts a connection drag
\* from a nearest port of n, with that port's direction and index and the
\* cursor at the pointer, when that port's squared distance to the pointer
\* is < 225; otherwise (>= 225, or no port) it starts a node drag of n with
\* grabOffset = pointer position - node origin.
C9_BodyDownStartsDrag ==
    [][\A n \in DOMAIN nodes : \A e \in BodyOffsets(n) :
        (Idle /\ NodeMouseDown(n, e)) =>
            LET page == PageOf(n, e)
                ports == PortDists(n, page)
                dists == { q.dist : q \in ports }
            IN  IF ports # {} /\ Min(dists) < 225
                THEN /\ currently_dragging'.tag = "Connection"
                     /\ currently_dragging'.from = n
                     /\ currently_dragging'.to = page
                     /\ \E q \in ports : /\ q.dist = Min(dists)
                                         /\ currently_dragging'.index = q.index
                ELSE currently_dragging' =
                        [tag |-> "Node", node |-> n,
                         element_offset |-> Pt(page.x - position[n].x,
                                               page.y - position[n].y)]]_vars

\* A pointerDown on the body of the node with two inputs, at squared
\* distance exactly 225 of its nearest port, has started a node drag.
C9_Witness ==
    /\ nodes = GraphAB
    /\ DraggingNode
    /\ grab.node = 2
    /\ position[2] = grab.origin
    /\ Min({ q.dist : q \in PortDists(2, grab.page) }) = 225

-----------------------------------------------------------------------------
(* C10 *)

Minus(a, b) == Pt(a.x - b.x, a.y - b.y)

\* C10: in a node drag grabOffset is the pointer position minus the node
\* origin at the pointerDown; a pointerMove at p leaves it as it is and puts
\* the dragged node (and no other) at p - grabOffset, which is its origin at
\* the pointerDown displaced as the pointer is from the pointerDown.
C10_NodeFollowsPointer ==
    [][/\ DraggingNode' =>
            /\ grab'.node = currently_dragging'.node
            /\ currently_dragging'.element_offset = Minus(grab'.page, grab'.origin)
       /\ \A p \in MovePoints :
            (DraggingNode /\ (ElementMouseMove(p) \/ SvgMouseMove(p))) =>
                LET d == currently_dragging
                IN  /\ currently_dragging' = d
                    /\ position' = [position EXCEPT ![d.node] = Minus(p, d.element_offset)]
                    /\ Minus(position'[d.node], grab.origin) = Minus(p, grab.page)]_vars

\* A node drag has moved its node away from where it was grabbed.
C10_Witness ==
    /\ DraggingNode
    /\ grab.node = currently_dragging.node
    /\ position[grab.node] # grab.origin
    /\ \E p \in MovePoints :
          Minus(position[grab.node], grab.origin) = Minus(p, grab.page)

-----------------------------------------------------------------------------
(* C11 *)

\* C11: a pointerUp taken while the drag state is Idle, on a node body, on an
\* input or output marker or on the bare surface, raises no error, adds no
\* edge, moves no node and leaves the drag state Idle.
C11_IdlePointerUpIsNoOp ==
    [][(Idle /\ (BodyUp \/ MarkerUp \/ SvgMouseUp)) =>
            /\ panicked' = "no"
            /\ edges' = edges
            /\ position' = position
            /\ currently_dragging' = None]_vars

-----------------------------------------------------------------------------
(* C12 *)

\* C12: a pointerUp on an input marker ending a connection drag started from
\* an output port, or on an output marker ending one started from an input
\* port, adds exactly the edge between the port the drag started from and the
\* marker's port (output owner -> input owner, with the output index and the
\* input index), whatever the distance, raises no error and leaves the drag
\* state Idle.
C12_MarkerReleaseCommits ==
    [][/\ \A n \in DOMAIN nodes : \A i \in 0..(nodes[n].inputs - 1) :
            (DraggingFrom("Output") /\ InputMouseUp(n, i)) =>
                /\ edges' = Append(edges, [source |-> currently_dragging.from,
                                           target |-> n,
                                           start |-> currently_dragging.index.i,
                                           end |-> i])
                /\ panicked' = "no"
                /\ currently_dragging' = None
       /\ \A n \in DOMAIN nodes : \A i \in 0..(nodes[n].outputs - 1) :
            (DraggingFrom("Input") /\ OutputMouseUp(n, i)) =>
                /\ edges' = Append(edges, [source |-> n,
                                           target |-> currently_dragging.from,
                                           start |-> i,
                                           end |-> currently_dragging.index.i])
                /\ panicked' = "no"
                /\ currently_dragging' = None]_vars

-----------------------------------------------------------------------------
(* C13 *)

\* C13: clear_dragging(), called when no write view of the cell is held, in
\* any drag state (Idle, DraggingNode, DraggingConnection): it raises no
\* error and yields Idle (so Idle stays Idle), a second call gives the state
\* the first call gave, and the edges, the nodes and their positions are as
\* before.
C13_ClearDraggingIdempotent ==
    LET once == clear_dragging(State)
    IN  panicked = "no" =>
            /\ once.panicked = "no"
            /\ once.currently_dragging = None
            /\ clear_dragging(once) = once
            /\ once.edges = edges
            /\ once.nodes = nodes
            /\ once.position = position

\* A node drag that has moved node 2 is in progress, an edge is in the graph,
\* and the pointerUp on the surface, which is clear_dragging(), ends the drag.
C13_Witness ==
    /\ nodes = GraphAB
    /\ DraggingNode
    /\ Len(edges) = 1
    /\ position[2] # Pt(300, 100)
    /\ ENABLED (SvgMouseUp /\ currently_dragging' = None /\ position' = position)

-----------------------------------------------------------------------------
(* C14 *)

\* C14: a pointerEnter on the root surface with no button held leaves the
\* drag state Idle, whatever it was, and adds no edge; with a button held it
\* leaves the drag state (and the edges) as they were.
C14_EnterWithoutButtonsResets ==
    [][/\ SvgMouseEnter(TRUE) =>
            /\ currently_dragging' = None
            /\ edges' = edges
            /\ panicked' = "no"
       /\ SvgMouseEnter(FALSE) =>
            /\ currently_dragging' = currently_dragging
            /\ edges' = edges
            /\ panicked' = "no"]_vars

\* A connection drag is in progress (its pointerUp was not seen) and the
\* pointer enters the surface with no button held: the drag is over.
C14_Witness ==
    /\ DraggingConnection
    /\ ENABLED (SvgMouseEnter(TRUE) /\ currently_dragging' = None)
    /\ ENABLED (SvgMouseEnter(FALSE) /\ DraggingConnection')

-----------------------------------------------------------------------------
(* C15 *)

\* C15: in every reachable state every edge is an arc between two nodes of
\* the graph, from the owner of its output port to the owner of its input
\* port: its output index (start) is below the number of outputs of its
\* source and its input index (end) below the number of inputs of its target.
C15_EdgesWithinPortCounts ==
    \A k \in 1..Len(edges) :
        /\ edges[k].source \in DOMAIN nodes
        /\ edges[k].target \in DOMAIN nodes
        /\ edges[k].start \in 0..(nodes[edges[k].source].outputs - 1)
        /\ edges[k].end \in 0..(nodes[edges[k].target].inputs - 1)

\* The graph holds an edge from the only output of node 1 to the second
\* input of node 2.
C15_Witness ==
    /\ nodes = GraphAB
    /\ panicked = "no"
    /\ \E k \in 1..Len(edges) :
          edges[k] = [source |-> 1, target |-> 2, start |-> 0, end |-> 1]

-----------------------------------------------------------------------------
(* C16 *)

\* C16: the line drawn for every edge joins the edge's own two ports: one
\* end is output_pos of its source at its output index, the other input_pos
\* of its target at its input index, at the nodes' current positions.
C16_EdgesRenderedAtOwnPorts ==
    \A k \in 1..Len(edges) :
        LET line == FlowView_connections(State)[k]
        IN  { line.start_pos, line.end_pos } =
                { output_pos(State, edges[k].source, edges[k].start),
                  input_pos(State, edges[k].target, edges[k].end) }

-----------------------------------------------------------------------------
(* C17 *)

\* port counts and heights of the node shapes the port formulas are checked on
PortCounts == 1..3

Heights == { 12, 60 }

\* a node of the given shape alone in a graph, at position p
Shape(inputs, outputs, width, height, p) ==
    [nodes |-> << NodeOf(inputs, outputs, width, height, p.x, p.y) >>,
     position |-> << p >>]

\* the ports of node n of s lie strictly between the top and the bottom of
\* the node, lower for higher indices, on the lines x - 1 and x + width - 1
PortsInOrder(s, n) ==
    LET node == s.nodes[n]
        pos == s.position[n]
    IN  /\ \A i \in 0..(node.inputs - 1) :
              /\ input_pos(s, n, i).x = pos.x - 1
              /\ pos.y < input_pos(s, n, i).y
              /\ input_pos(s, n, i).y < pos.y + node.height
              /\ i > 0 => input_pos(s, n, i - 1).y < input_pos(s, n, i).y
        /\ \A i \in 0..(node.outputs - 1) :
              /\ output_pos(s, n, i).x = pos.x + node.width - 1
              /\ pos.y < output_pos(s, n, i).y
              /\ output_pos(s, n, i).y < pos.y + node.height
              /\ i > 0 => output_pos(s, n, i - 1).y < output_pos(s, n, i).y

\* C17: for a node of height H > 0, input_pos(i).y and output_pos(i).y lie
\* strictly between node.y and node.y + H and increase strictly with i, and
\* the x-coordinates are node.x - 1 for inputs and node.x + width - 1 for
\* outputs; a node at (100,100) of size 80x40 has its only output at
\* (179,120).  Checked on the nodes of the graph where they stand and on
\* nodes of 1 to 3 ports a side standing at the same places.
C17_PortsInsideNodeInOrder ==
    /\ \A n \in DOMAIN nodes :
          /\ PortsInOrder(State, n)
          /\ \A c \in PortCounts : \A h \in Heights :
                PortsInOrder(Shape(c, c, nodes[n].width, h, position[n]), 1)
    /\ output_pos(Shape(0, 1, 80, 40, Pt(100, 100)), 1, 0) = Pt(179, 120)
    /\ input_pos(Shape(1, 0, 80, 40, Pt(300, 100)), 1, 0) = Pt(299, 120)

\* Node 1 stands at (100,100) with its output at (179,120), and node 2 has
\* been dragged away from (300,100): its inputs are at a third and at two
\* thirds of its height.
C17_Witness ==
    /\ nodes = GraphAB
    /\ position[1] = Pt(100, 100)
    /\ output_pos(State, 1, 0) = Pt(179, 120)
    /\ position[2] # Pt(300, 100)
    /\ input_pos(State, 2, 0) = Pt(position[2].x - 1, position[2].y + 20)
    /\ input_pos(State, 2, 1) = Pt(position[2].x - 1, position[2].y + 40)

-----------------------------------------------------------------------------
(* C18 *)

\* d is no gesture, or one node drag, or one connection drag
OneGesture(d) ==
    LET idle == d = None
        node == d.tag = "Node" /\ DOMAIN d = {"tag", "node", "element_offset"}
        connection == d.tag = "Connection" /\ DOMAIN d = {"tag", "from", "index", "to"}
    IN  /\ idle \/ node \/ connection
        /\ ~(idle /\ node) /\ ~(idle /\ connection) /\ ~(node /\ connection)

\* C18: in every reachable state exactly one of Idle, DraggingNode and
\* DraggingConnection holds; whatever pointerDown arrives while a gesture is
\* in progress (on a body, on an input marker, on an output marker), its
\* handler leaves one gesture, the one it starts.
C18_OneGestureAtATime ==
    /\ OneGesture(currently_dragging)
    /\ (~Idle /\ panicked = "no") =>
          \A n \in DOMAIN nodes :
            /\ \A i \in 0..(nodes[n].outputs - 1) :
                  output_onmousedown(State, n, i, OutputMarker(n, i)).currently_dragging
                    = [tag |-> "Connection", from |-> n,
                       index |-> Output(i), to |-> OutputMarker(n, i)]
            /\ \A i \in 0..(nodes[n].inputs - 1) :
                  input_onmousedown(State, n, i, InputMarker(n, i)).currently_dragging
                    = [tag |-> "Connection", from |-> n,
                       index |-> Input(i), to |-> InputMarker(n, i)]
            /\ \A e \in BodyOffsets(n) :
                  LET d == node_onmousedown(State, n, PageOf(n, e), e).currently_dragging
                  IN  /\ OneGesture(d)
                      /\ \/ d = [tag |-> "Node", node |-> n, element_offset |-> e]
                         \/ /\ d.tag = "Connection"
                            /\ d.from = n
                            /\ d.to = PageOf(n, e)

\* Node 2 is being dragged and a pointerDown arrives on the output marker of
\* node 1: the connection drag from that output is the one gesture left.
C18_Witness ==
    /\ nodes = GraphAB
    /\ DraggingNode
    /\ currently_dragging.node = 2
    /\ ENABLED (/\ OutputMouseDown(1, 0)
                /\ currently_dragging'.tag = "Connection"
                /\ currently_dragging'.from = 1)

-----------------------------------------------------------------------------
(* C19 *)

PointerMove == \E p \in MovePoints : ElementMouseMove(p) \/ SvgMouseMove(p)

\* C19: no pointer event changes the nodes of the graph, their sizes or
\* their port counts, or removes an edge; the edges change only by one edge
\* added in a pointerUp (on a body or a marker) taken during a connection
\* drag; a position changes only in a pointerMove taken during a node drag,
\* and only that of the dragged node.
C19_FrameOfPointerEvents ==
    [][/\ nodes' = nodes
       /\ DOMAIN position' = DOMAIN position
       /\ Len(edges') >= Len(edges)
       /\ SubSeq(edges', 1, Len(edges)) = edges
       /\ (edges' # edges) =>
            /\ DraggingConnection
            /\ OneEdgeAdded
            /\ BodyUp \/ MarkerUp
       /\ (position' # position) =>
            /\ DraggingNode
            /\ \A n \in DOMAIN nodes :
                  n # currently_dragging.node => position'[n] = position[n]
            /\ PointerMove]_vars

\* The graph has got an edge, node 1 is being dragged, and a pointerMove
\* displaces it and nothing else.
C19_Witness ==
    /\ nodes = GraphAB
    /\ Len(edges) = 1
    /\ DraggingNode
    /\ currently_dragging.node = 1
    /\ ENABLED (/\ SvgMouseMove(Pt(250, 120))
                /\ position'[1] # position[1]
                /\ position'[2] = position[2]
                /\ edges' = edges)

-----------------------------------------------------------------------------
(* C20 *)

\* C20: a pointerMove at p during a connection drag sets the cursor to p and
\* leaves the node and the port the drag started from, every position, the
\* edges and the focus as they were; a pointerMove while Idle changes nothing.
C20_MoveDuringConnection ==
    [][\A p \in MovePoints :
        (ElementMouseMove(p) \/ SvgMouseMove(p)) =>
            /\ DraggingConnection =>
                  /\ currently_dragging' = [currently_dragging EXCEPT !.to = p]
                  /\ currently_dragging'.from = currently_dragging.from
                  /\ currently_dragging'.index = currently_dragging.index
                  /\ position' = position
                  /\ edges' = edges
                  /\ currently_focused' = currently_focused
                  /\ panicked' = "no"
            /\ Idle =>
                  UNCHANGED <<nodes, position, edges, currently_dragging,
                              currently_focused, panicked>>]_vars

\* A connection drag started from the second input of node 2, cursor on its
\* marker at (304,140), and a pointerMove takes the cursor to (250,120).
C20_Witness ==
    /\ nodes = GraphAB
    /\ DraggingFrom("Input")
    /\ currently_dragging.index.i = 1
    /\ currently_dragging.to = Pt(304, 140)
    /\ ENABLED (/\ ElementMouseMove(Pt(250, 120))
                /\ currently_dragging' = [currently_dragging EXCEPT !.to = Pt(250, 120)])

-----------------------------------------------------------------------------
(* C21 *)

\* element coordinates at the same distance of several ports: of the two
\* inputs of a node 60 high, of the input and the output of a node 20 wide,
\* and of all four ports of a node 20 wide and 60 high with two ports a side
TieOffsets == { Pt(0, 30), Pt(9, 20), Pt(9, 30) }

HitOffsets ==
    TieOffsets \cup ProbesAB[1] \cup ProbesAB[2] \cup ProbesC[1] \cup ProbesD[1]

\* the program's state, and the same state on a graph of one node with two
\* inputs and two outputs
HitStates ==
    { State,
      [State EXCEPT !.nodes = << NodeOf(2, 2, 20, 60, 200, 200) >>,
                    !.position = << Pt(200, 200) >>] }

\* the lowest-indexed of the ports of direction dir of node n of s that are
\* nearest to page, with its squared distance (n has ports of that direction)
LowestNearest(s, n, page, dir) ==
    LET count == IF dir = "Input" THEN s.nodes[n].inputs ELSE s.nodes[n].outputs
        at(i) == IF dir = "Input" THEN dist2(input_pos(s, n, i), page)
                 ELSE dist2(output_pos(s, n, i), page)
        near == Min({ at(i) : i \in 0..(count - 1) })
    IN  [i |-> Min({ i \in 0..(count - 1) : at(i) = near }), dist |-> near]

\* the port a body pointerDown at page picks on node n of s (n has ports): a
\* nearest one, an input rather than an output at the same distance
FirstNearest(s, n, page) ==
    LET a == LowestNearest(s, n, page, "Input")
        b == LowestNearest(s, n, page, "Output")
    IN  IF s.nodes[n].outputs = 0 THEN [index |-> Input(a.i), dist |-> a.dist]
        ELSE IF s.nodes[n].inputs = 0 THEN [index |-> Output(b.i), dist |-> b.dist]
        ELSE IF a.dist <= b.dist THEN [index |-> Input(a.i), dist |-> a.dist]
        ELSE [index |-> Output(b.i), dist |-> b.dist]

\* C21: of several ports at the same least squared distance of the pointer
\* the first in enumeration order is chosen: on a body pointerDown the
\* lowest-indexed nearest input, or the lowest-indexed nearest output if it
\* is strictly nearer than every input; on a body pointerUp ending a
\* connection drag the lowest-indexed nearest port of the opposite
\* direction.  The port chosen is a function of the node, its position and
\* the pointer position alone.
C21_TiesTakeFirst ==
    panicked = "no" =>
      \A s \in HitStates : \A n \in DOMAIN s.nodes : \A e \in HitOffsets :
        LET page == Pt(s.position[n].x + e.x, s.position[n].y + e.y)
            node == s.nodes[n]
            d == s.currently_dragging
            down == node_onmousedown(s, n, page, e).currently_dragging
            up == node_finish_connection(s, n, page)
        IN  /\ IF node.inputs + node.outputs > 0 /\ FirstNearest(s, n, page).dist < 225
               THEN /\ down.tag = "Connection"
                    /\ down.index = FirstNearest(s, n, page).index
               ELSE down.tag = "Node"
            /\ (d.tag = "Connection" /\ d.index.dir = "Output" /\ node.inputs > 0) =>
                  LET low == LowestNearest(s, n, page, "Input")
                  IN  up.edges = IF low.dist < 225
                                 THEN Append(s.edges, [source |-> d.from, target |-> n,
                                                       start |-> d.index.i, end |-> low.i])
                                 ELSE s.edges
            /\ (d.tag = "Connection" /\ d.index.dir = "Input" /\ node.outputs > 0) =>
                  LET low == LowestNearest(s, n, page, "Output")
                  IN  up.edges = IF low.dist < 225
                                 THEN Append(s.edges, [source |-> n, target |-> d.from,
                                                       start |-> low.i, end |-> d.index.i])
                                 ELSE s.edges

\* A pointerDown on the body of the narrow node, at squared distance 100 of
\* its input and of its output, has started a connection drag from the input.
C21_Witness ==
    /\ nodes = GraphC
    /\ dist2(input_pos(State, 1, 0), Pt(209, 220)) = 100
    /\ dist2(output_pos(State, 1, 0), Pt(209, 220)) = 100
    /\ currently_dragging = [tag |-> "Connection", from |-> 1,
                             index |-> Input(0), to |-> Pt(209, 220)]

-----------------------------------------------------------------------------
(* C22 *)

\* the arc from output out of node n to input in of the same node
SelfLoop(n, out, in) == [source |-> n, target |-> n, start |-> out, end |-> in]

\* C22: the release of a connection drag on the node it started from adds
\* the edge from that node to itself, whether the graph holds that edge
\* already or not: on the node's body within snap distance of its nearest
\* port of the opposite direction, and on a marker of the opposite direction.
C22_SelfLoopsAndParallelEdges ==
    (DraggingConnection /\ panicked = "no") =>
        LET d == currently_dragging
            n == d.from
        IN  /\ \A e \in BodyOffsets(n) :
                  LET page == PageOf(n, e)
                      after == node_onmouseup(State, n, page).edges
                  IN  (OppositeDists(n, page) # {} /\ Min(OppositeDists(n, page)) < 225) =>
                          /\ Len(after) = Len(edges) + 1
                          /\ SubSeq(after, 1, Len(edges)) = edges
                          /\ after[Len(after)].source = n
                          /\ after[Len(after)].target = n
                          /\ d.index.dir = "Output" => after[Len(after)].start = d.index.i
                          /\ d.index.dir = "Input" => after[Len(after)].end = d.index.i
            /\ d.index.dir = "Output" =>
                  \A i \in 0..(nodes[n].inputs - 1) :
                      input_onmouseup(State, n, i).edges
                          = Append(edges, SelfLoop(n, d.index.i, i))
            /\ d.index.dir = "Input" =>
                  \A i \in 0..(nodes[n].outputs - 1) :
                      output_onmouseup(State, n, i).edges
                          = Append(edges, SelfLoop(n, i, d.index.i))

\* Two completed connection gestures from the output of the narrow node to
\* its own input have left two edges from the node to itself, with the same
\* indices.
C22_Witness ==
    /\ nodes = GraphC
    /\ panicked = "no"
    /\ edges = << SelfLoop(1, 0, 0), SelfLoop(1, 0, 0) >>

====
